---- MODULE Spec2Model ----
(***************************************************************************)
(* HydroOJ-Course (src/index.ts): the course document, the per-student     *)
(* status collection, the enrolment request, the progress views, the       *)
(* attachment handlers, the course-list filter, the access check of the    *)
(* detail page and the deletion of a course.                               *)
(*                                                                         *)
(* One course of one domain is modelled.  Every handler instance is a      *)
(* request that first runs prepare() (which reads the course document into *)
(* this.cdoc) and then its method.  In the handlers that write, each await *)
(* on the store or the blob store is a separate step, so that requests     *)
(* interleave at I/O; a read-only view is one step, and its response holds *)
(* the documents it read.  response is the body of the request answered    *)
(* last: any later operation replaces or clears it.                        *)
(***************************************************************************)
EXTENDS Integers, Sequences, FiniteSets, TLC

\* ---------------------------------------------------------------- bounds
NReq == 2          \* concurrent enrol requests
MaxTime == 2       \* the clock runs 0..MaxTime
MaxJournal == 3    \* journal entries appended in all
MaxPids == 2       \* length of the course's problem list
NFileReq == 2      \* concurrent attachment requests
FilesLimit == 2    \* SystemModel.get('limit.contest_files')
FilesSizeLimit == 4 \* SystemModel.get('limit.contest_files_size')

Users == {1, 2}
Pids == {1, 2}
Scores == {40, 100}
FileNames == {"a", "b"}
FileSizes == {1, 2}
FileReqIds == 1..NFileReq
ReqIds == 1..NReq
Times == 0..MaxTime

VARIABLES
    cdoc,          \* the stored course document (CourseDoc)
    collStatus,    \* the status collection: a sequence of CourseStatusDoc
    now,           \* the wall clock (new Date())
    req,           \* the CourseDetailHandler instances serving postAttend
    response,      \* this.response.body of the request answered last
    freq,          \* the CourseFilesHandler instances
    blobs,         \* the blob store (StorageModel), by file name
    stored,        \* whether the course document is in the document store
    dreq           \* the CourseEditHandler instance serving postDelete

vars == <<cdoc, collStatus, now, req, response, freq, blobs, stored, dreq>>
fileVars == <<freq, blobs>>
delVars == <<stored, dreq>>

\* ------------------------------------------------------- the status store

\* The indices of the status documents of one (course, user).
StatusIdx(coll, uid) == {i \in DOMAIN coll : coll[i].uid = uid}

\* DocumentModel.setIfNotStatus(.., uid, 'attend', 1, 1, ..) refuses (throws)
\* when a status document of the user already carries attend = 1.
setIfNotStatusConflict(coll, uid) ==
    \E i \in StatusIdx(coll, uid) : coll[i].attend = 1

\* ... and otherwise, in the same atomic step, creates the document or sets
\* attend = 1, enroll = 1, startAt = new Date() on the existing one.
setIfNotStatusWrite(coll, uid, t) ==
    IF StatusIdx(coll, uid) = {}
    THEN Append(coll, [uid |-> uid, attend |-> 1, enroll |-> 1,
                       startAt |-> t, journal |-> <<>>])
    ELSE [i \in DOMAIN coll |->
            IF coll[i].uid = uid
            THEN [coll[i] EXCEPT !.attend = 1, !.enroll = 1, !.startAt = t]
            ELSE coll[i]]

\* The number of enrolment records with attend = 1 of user uid.
Enrolled(coll, uid) ==
    Cardinality({i \in StatusIdx(coll, uid) : coll[i].attend = 1})

\* The number of enrolment records with attend = 1 of the course.
EnrolledCount(coll) ==
    Cardinality({i \in DOMAIN coll : coll[i].attend = 1})

\* ------------------------------------------------------------ CourseModel

\* CourseModel.isDone(cdoc): cdoc.endAt <= new Date().  (isDoneStrict: the
\* comparison with < in its place.)
isDoneStrict(c, t) == c.endAt < t
isDone(c, t) == c.endAt <= t

\* CourseModel.attend, the try/catch around the conditional write: a throw
\* becomes 'Already enrolled in this course', otherwise the increment follows.
\* (attendSwallow: the conflict is not turned into a failure.)
attendSwallow(conflict) == "inc"
attendOutcome(conflict) == IF conflict THEN "AlreadyEnrolled" ELSE "inc"

\* CourseModel.attend, the increment: DocumentModel.inc(.., 'attend', 1).
\* (incAttendTwice: an increment of 2.)
incAttendTwice(c) == [c EXCEPT !.attend = @ + 2]
incAttend(c) == [c EXCEPT !.attend = @ + 1]

\* ------------------------------------------------- CourseDetailHandler

\* A course as CourseModel.add stores it: attend 0, and the fields the edit
\* form supplies (postUpdate defaults every list to []).
NewCourse(beginAt, endAt, pids) ==
    [owner |-> 1, maintainer |-> {}, teachers |-> {}, assign |-> {},
     classes |-> {}, beginAt |-> beginAt, endAt |-> endAt, attend |-> 0,
     pids |-> pids, files |-> <<>>]

NoCdoc == NewCourse(0, 0, <<>>)
NoResponse == [kind |-> "none"]

\* A blob's metadata: size and etag; the etag of an upload is the request that
\* wrote it, 0 for what was stored before.  NoBlob: no such blob.
NoBlob == [size |-> 0, etag |-> -1]
NoFiles == <<>>
IdleFreq == [pc |-> "idle", kind |-> "none", files |-> NoFiles, name |-> "",
             hasFile |-> FALSE, size |-> 0, names |-> {}, meta |-> NoBlob,
             putIssued |-> FALSE, putOk |-> FALSE, metaOk |-> FALSE,
             delDone |-> FALSE, editDone |-> FALSE,
             pre |-> NoFiles, post |-> NoFiles, result |-> "none"]

\* The domain, the id of the course, and the ids a request may name (the
\* second resolves to no document).  An ObjectId and its toString() are
\* different values.
DomainId == "d1"
CourseId == "ObjectId(c1)"
ObjectIds == {CourseId, "ObjectId(c2)"}
toString(cid) == IF cid = "ObjectId(c1)" THEN "c1" ELSE "c2"

\* class CourseNotFoundError extends NotFoundError: super('Course',
\* cid.toString()), then this.params = [domainId, cid].
CourseNotFoundError(domainId, cid) ==
    [name |-> "CourseNotFoundError", params |-> <<domainId, cid>>]

\* new NotFoundError(a, b): the host's error, params [a, b].
NotFoundError(a, b) == [name |-> "NotFoundError", params |-> <<a, b>>]

NoError == [name |-> "none", params |-> <<>>]

\* The groups of the domain, and the names a course's assign/classes may hold
\* ("gx": a name that is no group of the domain).
DomainGroups == {"g1", "g2"}
GroupNames == DomainGroups \cup {"gx"}

\* UserModel.listGroup(domainId, hasPerm(PERM_VIEW_HIDDEN_HOMEWORK) ? undefined
\* : uid): every group of the domain, or the groups the user belongs to.
listGroup(viewHidden, userGroups) ==
    IF viewHidden THEN DomainGroups ELSE userGroups

\* CourseModel.get(domainId, cid): whether the id resolves to the document.
getFound(cid) == stored /\ cid = CourseId

\* this.user.own(cdoc): the viewer is the owner or one of the maintainers.
own(c, uid) == c.owner = uid \/ uid \in c.maintainer

\* prepare(), hasAccess: assign.some(groups.includes) || classes.some(
\* groups.includes) || teachers.includes(uid).  (hasAccessNoTeachers: the
\* teachers branch is missing.)
hasAccessNoTeachers(c, uid, groups) ==
    \/ c.assign \cap groups # {}
    \/ c.classes \cap groups # {}

hasAccess(c, uid, groups) ==
    \/ c.assign \cap groups # {}
    \/ c.classes \cap groups # {}
    \/ uid \in c.teachers

\* prepare(), the condition of the access check: the course has assigned
\* groups, the viewer does not own it and may not view hidden courses.
accessChecked(c, uid, viewHidden) ==
    c.assign # {} /\ ~own(c, uid) /\ ~viewHidden

IdleReq == [pc |-> "idle", uid |-> 0, groups |-> {}, viewHidden |-> FALSE,
            cid |-> "", cdoc |-> NoCdoc, perm |-> FALSE,
            ended |-> FALSE, called |-> FALSE, inc |-> FALSE,
            error |-> NoError, result |-> "none"]

\* postDelete: the attachment list the handler read, and which of the three
\* concurrent deletions have run.
IdleDreq == [pc |-> "idle", files |-> NoFiles, oneDone |-> FALSE,
             statusDone |-> FALSE, blobsDone |-> FALSE, result |-> "none"]

\* prepare() for viewer u (member of userGroups, viewHidden: holds
\* PERM_VIEW_HIDDEN_HOMEWORK) naming cid: this.cdoc = await CourseModel.get;
\* no document is a CourseNotFoundError; then the access check, whose failure
\* is a NotFoundError('Course', cid.toString()).
DetailPrepare(r, u, userGroups, viewHidden, cid) ==
    /\ req[r].pc = "idle"
    /\ LET me == [req[r] EXCEPT !.uid = u, !.groups = userGroups,
                                !.viewHidden = viewHidden, !.cid = cid]
           groups == listGroup(FALSE, userGroups)
       IN  req' = [req EXCEPT ![r] =
                IF ~getFound(cid)
                THEN [me EXCEPT !.pc = "done", !.result = "NotFound",
                                !.error = CourseNotFoundError(DomainId, cid)]
                ELSE IF accessChecked(cdoc, u, viewHidden)
                        /\ ~hasAccess(cdoc, u, groups)
                THEN [me EXCEPT !.pc = "done", !.result = "NotFound",
                                !.cdoc = cdoc,
                                !.error = NotFoundError("Course", toString(cid))]
                ELSE [me EXCEPT !.pc = "prepared", !.cdoc = cdoc]]
    /\ UNCHANGED <<delVars, fileVars, cdoc, collStatus, now, response>>

\* postAttend(): checkPerm, then isDone(this.cdoc), then CourseModel.attend up
\* to and including its conditional write.  perm is the viewer's
\* PERM_ATTEND_HOMEWORK at the time of the call; ended records whether the
\* end time the request read had passed when it was called.
PostAttend(r) ==
    /\ req[r].pc = "prepared"
    /\ \E perm \in BOOLEAN :
        LET me == [req[r] EXCEPT !.perm = perm,
                                 !.ended = (req[r].cdoc.endAt <= now)]
            conflict == setIfNotStatusConflict(collStatus, me.uid)
        IN  IF ~perm
            THEN /\ req' = [req EXCEPT ![r] = [me EXCEPT !.pc = "done",
                                        !.result = "PermissionDenied"]]
                 /\ UNCHANGED collStatus
            ELSE IF isDone(me.cdoc, now)
            THEN /\ req' = [req EXCEPT ![r] = [me EXCEPT !.pc = "done",
                                        !.result = "CourseEnded"]]
                 /\ UNCHANGED collStatus
            ELSE IF attendOutcome(conflict) = "AlreadyEnrolled"
            THEN /\ req' = [req EXCEPT ![r] = [me EXCEPT !.pc = "done",
                                        !.called = TRUE,
                                        !.result = "AlreadyEnrolled"]]
                 /\ UNCHANGED collStatus
            ELSE /\ req' = [req EXCEPT ![r] = [me EXCEPT !.pc = "inc",
                                        !.called = TRUE]]
                 /\ collStatus' = IF conflict THEN collStatus
                                  ELSE setIfNotStatusWrite(collStatus, me.uid, now)
    /\ UNCHANGED <<delVars, fileVars, cdoc, now, response>>

\* CourseModel.attend, second await: the counter increment (which matches no
\* document once the course is deleted), then this.back().
AttendInc(r) ==
    /\ req[r].pc = "inc"
    /\ cdoc' = IF stored THEN incAttend(cdoc) ELSE cdoc
    /\ req' = [req EXCEPT ![r] = [@ EXCEPT !.pc = "done", !.inc = TRUE,
                                            !.result = "ok"]]
    /\ UNCHANGED <<delVars, fileVars, collStatus, now, response>>

\* The increment fails in the store (the partial failure of the two-step
\* protocol): the error propagates, the counter is not changed.
AttendIncFail(r) ==
    /\ req[r].pc = "inc"
    /\ req' = [req EXCEPT ![r] = [@ EXCEPT !.pc = "done",
                                            !.result = "StoreError"]]
    /\ UNCHANGED <<delVars, fileVars, cdoc, collStatus, now, response>>

\* Time passes.
Tick ==
    /\ now < MaxTime
    /\ now' = now + 1
    /\ UNCHANGED <<delVars, fileVars, cdoc, collStatus, req, response>>

\* A status document without attend: one that only holds judging results.
BareStatus(u) == [uid |-> u, attend |-> 0, enroll |-> 0, startAt |-> 0,
                  journal |-> <<>>]

\* CourseModel.add: a new course has attend 0; nobody is enrolled.
InitEnroll ==
    /\ \E e \in 1..(MaxTime + 1) : cdoc = NewCourse(0, e, <<>>)
    /\ collStatus \in {<<>>, <<BareStatus(1)>>}
    /\ now = 0
    /\ req = [r \in ReqIds |-> IdleReq]
    /\ response = NoResponse
    /\ freq = [r \in FileReqIds |-> IdleFreq]
    /\ blobs = [n \in FileNames |-> NoBlob]
    /\ stored = TRUE
    /\ dreq = IdleDreq

NextEnroll ==
    \/ \E r \in ReqIds, u \in Users : DetailPrepare(r, u, {}, FALSE, CourseId)
    \/ \E r \in ReqIds : PostAttend(r)
    \/ \E r \in ReqIds : AttendInc(r)
    \/ \E r \in ReqIds : AttendIncFail(r)
    \/ Tick

SpecEnroll == InitEnroll /\ [][NextEnroll]_vars

\* ---------------------------------------------------- the progress ledger

Range(q) == {q[i] : i \in DOMAIN q}

\* The sequences over S of length at most n.
SeqsUpTo(S, n) == UNION {[1..k -> S] : k \in 0..n}

\* CourseModel.getStatus: the user's status document, or null.
NoCsdoc == [uid |-> 0, attend |-> 0, enroll |-> 0, startAt |-> 0,
            journal |-> <<>>]
HasStatus(coll, uid) == StatusIdx(coll, uid) # {}
getStatus(coll, uid) == coll[CHOOSE i \in StatusIdx(coll, uid) : TRUE]

\* The judging callback appends {pid, rid, score} to the student's journal
\* (rid: the submission, numbered by its place in the journal).
appendJournal(coll, uid, pid, score) ==
    [i \in DOMAIN coll |->
        IF coll[i].uid = uid
        THEN [coll[i] EXCEPT !.journal =
                Append(@, [pid |-> pid, rid |-> Len(@) + 1, score |-> score])]
        ELSE coll[i]]

RECURSIVE journalEntries(_)
journalEntries(coll) ==
    IF coll = <<>> THEN 0
    ELSE Len(Head(coll).journal) + journalEntries(Tail(coll))

AppendJournal(u, pid, score) ==
    /\ HasStatus(collStatus, u)
    /\ journalEntries(collStatus) < MaxJournal
    /\ collStatus' = appendJournal(collStatus, u, pid, score)
    /\ response' = NoResponse
    /\ UNCHANGED <<delVars, fileVars, cdoc, now, req>>

\* CourseEditHandler.postUpdate, the edit branch: the pids string is split,
\* converted with + and filtered (0 and NaN dropped); beginAt >= endAt is a
\* ValidationError; CourseModel.edit $sets the submitted fields.
parsePids(raw) == SelectSeq(raw, LAMBDA i : i # 0)

PostUpdate(rawPids, beginAt, endAt, maintainer, teachers, assign, classes) ==
    /\ IF beginAt >= endAt
       THEN /\ response' = [kind |-> "ValidationError"]
            /\ UNCHANGED cdoc
       ELSE /\ cdoc' = [cdoc EXCEPT !.pids = parsePids(rawPids),
                            !.beginAt = beginAt, !.endAt = endAt,
                            !.maintainer = maintainer, !.teachers = teachers,
                            !.assign = assign, !.classes = classes]
            /\ response' = [kind |-> "update"]
    /\ UNCHANGED <<delVars, fileVars, collStatus, now, req>>

\* CourseDetailHandler.get, psdict: the journal entries whose pid is in the
\* course's list are written into the dictionary in journal order, each
\* overwriting the entry of the same pid before it.  (psdictFirst: the first
\* entry of a pid is kept instead.)
RECURSIVE psdictFirst(_)
psdictFirst(valid) ==
    IF valid = <<>> THEN <<>>
    ELSE LET rest == psdictFirst(Tail(valid))
             e == Head(valid)
         IN  [k \in DOMAIN rest \cup {e.pid} |->
                IF k = e.pid THEN e ELSE rest[k]]

RECURSIVE psdictLoop(_)
psdictLoop(valid) ==
    IF valid = <<>> THEN <<>>
    ELSE LET prev == psdictLoop(SubSeq(valid, 1, Len(valid) - 1))
             e == valid[Len(valid)]
         IN  [k \in DOMAIN prev \cup {e.pid} |->
                IF k = e.pid THEN e ELSE prev[k]]

validEntries(journal, pids) ==
    SelectSeq(journal, LAMBDA p : p.pid \in Range(pids))

psdictOf(hasCsdoc, csdoc, pids) ==
    IF hasCsdoc THEN psdictLoop(validEntries(csdoc.journal, pids)) ELSE <<>>

\* get() for viewer u, with the course document prepare() has just read.
DetailGet(u) ==
    LET has == HasStatus(collStatus, u)
        csdoc == IF has THEN getStatus(collStatus, u) ELSE NoCsdoc
    IN  /\ response' = [kind |-> "detail", uid |-> u, cdoc |-> cdoc,
                        hasCsdoc |-> has, csdoc |-> csdoc,
                        psdict |-> psdictOf(has, csdoc, cdoc.pids)]
        /\ UNCHANGED <<delVars, fileVars, cdoc, collStatus, now, req>>

\* CourseScoreboardHandler.get: one row per status document with attend = 1;
\* for each pid of the course's list, journal.find(j => j.pid === pid) and
\* progress?.score || 0, written to row.scores and added to row.totalScore.
findEntry(journal, pid) ==
    LET hits == {i \in DOMAIN journal : journal[i].pid = pid}
    IN  IF hits = {} THEN 0
        ELSE journal[CHOOSE i \in hits : \A j \in hits : i <= j].score

RECURSIVE rowLoop(_, _, _)
rowLoop(csdoc, pids, k) ==
    IF k = 0 THEN [uid |-> csdoc.uid, scores |-> <<>>, totalScore |-> 0]
    ELSE LET prev == rowLoop(csdoc, pids, k - 1)
             sc == findEntry(csdoc.journal, pids[k])
         IN  [uid |-> csdoc.uid,
              scores |-> [p \in DOMAIN prev.scores \cup {pids[k]} |->
                            IF p = pids[k] THEN sc ELSE prev.scores[p]],
              totalScore |-> prev.totalScore + sc]

\* The sum of all scores of a journal.  (rowOfWholeJournal: a row whose total
\* is taken over the whole journal instead of the course's list.)
RECURSIVE journalSum(_)
journalSum(journal) ==
    IF journal = <<>> THEN 0 ELSE Head(journal).score + journalSum(Tail(journal))

rowOfWholeJournal(csdoc, pids) ==
    [rowLoop(csdoc, pids, Len(pids)) EXCEPT !.totalScore = journalSum(csdoc.journal)]

rowOf(csdoc, pids) == rowLoop(csdoc, pids, Len(pids))

\* rows.sort((a, b) => b.totalScore - a.totalScore): stable, descending.
insertRow(sorted, x) ==
    LET before == {j \in DOMAIN sorted : sorted[j].totalScore < x.totalScore}
        at == IF before = {} THEN Len(sorted) + 1
              ELSE CHOOSE j \in before : \A k \in before : j <= k
    IN  SubSeq(sorted, 1, at - 1) \o <<x>> \o SubSeq(sorted, at, Len(sorted))

RECURSIVE sortRows(_)
sortRows(rows) ==
    IF rows = <<>> THEN <<>>
    ELSE insertRow(sortRows(SubSeq(rows, 1, Len(rows) - 1)), rows[Len(rows)])

RECURSIVE rowsOf(_, _)
rowsOf(csdocs, pids) ==
    IF csdocs = <<>> THEN <<>>
    ELSE Append(rowsOf(SubSeq(csdocs, 1, Len(csdocs) - 1), pids),
                rowOf(csdocs[Len(csdocs)], pids))

ScoreboardGet ==
    LET csdocs == SelectSeq(collStatus, LAMBDA d : d.attend = 1)
    IN  /\ response' = [kind |-> "scoreboard", cdoc |-> cdoc,
                        rows |-> sortRows(rowsOf(csdocs, cdoc.pids))]
        /\ UNCHANGED <<delVars, fileVars, cdoc, collStatus, now, req>>

\* The students enrolled at the start: each has been through CourseModel.attend.
RECURSIVE enrolAll(_, _)
enrolAll(S, coll) ==
    IF S = {} THEN coll
    ELSE LET u == CHOOSE x \in S : \A y \in S : x <= y
         IN  enrolAll(S \ {u}, setIfNotStatusWrite(coll, u, 0))

InitProgress ==
    /\ \E S \in SUBSET Users, p \in SeqsUpTo(Pids, MaxPids) :
        /\ collStatus = enrolAll(S, <<>>)
        /\ cdoc = [NewCourse(0, 1, p) EXCEPT !.attend = Cardinality(S)]
    /\ now = 0
    /\ req = [r \in ReqIds |-> IdleReq]
    /\ response = NoResponse
    /\ freq = [r \in FileReqIds |-> IdleFreq]
    /\ blobs = [n \in FileNames |-> NoBlob]
    /\ stored = TRUE
    /\ dreq = IdleDreq

NextProgress ==
    \/ \E u \in Users, pid \in Pids, sc \in Scores : AppendJournal(u, pid, sc)
    \/ \E raw \in SeqsUpTo(Pids \cup {0}, MaxPids) :
            PostUpdate(raw, cdoc.beginAt, cdoc.endAt, cdoc.maintainer,
                       cdoc.teachers, cdoc.assign, cdoc.classes)
    \/ \E u \in Users : DetailGet(u)
    \/ ScoreboardGet

SpecProgress == InitProgress /\ [][NextProgress]_vars

\* ----------------------------------------------------- course deletion

\* CourseEditHandler.prepare() with a cid: this.cdoc = await CourseModel.get,
\* no document is a CourseNotFoundError.  The request modelled is the
\* owner's, who passes checkPerm.
EditPrepare ==
    /\ dreq.pc = "idle"
    /\ dreq' = IF getFound(CourseId)
               THEN [dreq EXCEPT !.pc = "prepared", !.files = cdoc.files]
               ELSE [dreq EXCEPT !.pc = "done", !.result = "NotFound"]
    /\ UNCHANGED <<fileVars, cdoc, collStatus, now, req, response, stored>>

\* postDelete(): Promise.all of CourseModel.del, itself a Promise.all of
\* deleteOne and deleteMultiStatus, and StorageModel.del of the files the
\* handler read; the three run in any order.
PostDelete ==
    /\ dreq.pc = "prepared"
    /\ dreq' = [dreq EXCEPT !.pc = "deleting"]
    /\ UNCHANGED <<fileVars, cdoc, collStatus, now, req, response, stored>>

postDeleteFinished(d) ==
    IF d.oneDone /\ d.statusDone /\ d.blobsDone
    THEN [d EXCEPT !.pc = "done", !.result = "ok"]
    ELSE d

\* DocumentModel.deleteOne(domainId, TYPE_COURSE, cid).
DeleteOne ==
    /\ dreq.pc = "deleting" /\ ~dreq.oneDone
    /\ stored' = FALSE
    /\ dreq' = postDeleteFinished([dreq EXCEPT !.oneDone = TRUE])
    /\ UNCHANGED <<fileVars, cdoc, collStatus, now, req, response>>

\* DocumentModel.deleteMultiStatus(domainId, TYPE_COURSE, { docId: cid }):
\* the status documents of the course that are there now are removed.
DeleteMultiStatus ==
    /\ dreq.pc = "deleting" /\ ~dreq.statusDone
    /\ collStatus' = <<>>
    /\ dreq' = postDeleteFinished([dreq EXCEPT !.statusDone = TRUE])
    /\ UNCHANGED <<fileVars, cdoc, now, req, response, stored>>

\* StorageModel.del(this.cdoc?.files?.map(path) || []).
DeleteCourseBlobs ==
    /\ dreq.pc = "deleting" /\ ~dreq.blobsDone
    /\ blobs' = [n \in FileNames |->
                    IF \E i \in DOMAIN dreq.files : dreq.files[i].name = n
                    THEN NoBlob ELSE blobs[n]]
    /\ dreq' = postDeleteFinished([dreq EXCEPT !.blobsDone = TRUE])
    /\ UNCHANGED <<cdoc, collStatus, now, req, response, freq, stored>>

\* A course that has not ended, with one attachment, and the students
\* enrolled in it so far.
InitDelete ==
    /\ \E S \in SUBSET Users :
        /\ collStatus = enrolAll(S, <<>>)
        /\ cdoc = [NewCourse(0, MaxTime + 1, <<>>) EXCEPT
                        !.attend = Cardinality(S),
                        !.files = <<[name |-> "a", size |-> 1, etag |-> 0,
                                     by |-> 0]>>]
    /\ now = 0
    /\ req = [r \in ReqIds |-> IdleReq]
    /\ response = NoResponse
    /\ freq = [r \in FileReqIds |-> IdleFreq]
    /\ blobs = [n \in FileNames |->
                    IF n = "a" THEN [size |-> 1, etag |-> 0] ELSE NoBlob]
    /\ stored = TRUE
    /\ dreq = IdleDreq

NextDelete ==
    \/ \E r \in ReqIds, u \in Users : DetailPrepare(r, u, {}, FALSE, CourseId)
    \/ \E r \in ReqIds : PostAttend(r)
    \/ \E r \in ReqIds : AttendInc(r)
    \/ \E r \in ReqIds : AttendIncFail(r)
    \/ EditPrepare
    \/ PostDelete
    \/ DeleteOne
    \/ DeleteMultiStatus
    \/ DeleteCourseBlobs

SpecDelete == InitDelete /\ [][NextDelete]_vars

\* ---------------------------------------------------- CourseFilesHandler

\* (this.cdoc.files || []).reduce((acc, i) => acc + (i.size || 0), 0)
RECURSIVE totalSize(_)
totalSize(files) ==
    IF files = <<>> THEN 0 ELSE Head(files).size + totalSize(Tail(files))

\* postUploadFile, the checks before the blob write, in the code's order: the
\* count limit, the missing file, the size limit.  (quotaCheckLax: > in place
\* of >=.)
quotaCheckLax(files, hasFile, size) ==
    IF Len(files) > FilesLimit THEN "FileLimitExceeded_count"
    ELSE IF ~hasFile THEN "ValidationError"
    ELSE IF totalSize(files) + size > FilesSizeLimit THEN "FileLimitExceeded_size"
    ELSE "ok"

quotaCheck(files, hasFile, size) ==
    IF Len(files) >= FilesLimit THEN "FileLimitExceeded_count"
    ELSE IF ~hasFile THEN "ValidationError"
    ELSE IF totalSize(files) + size >= FilesSizeLimit THEN "FileLimitExceeded_size"
    ELSE "ok"

\* postUploadFile after getMeta: the payload is built, then a missing meta is
\* a FileUploadError, otherwise CourseModel.edit follows.  (metaUnchecked: the
\* !meta check is missing.)
metaUnchecked(present) == "edit"
metaOutcome(present) == IF present THEN "edit" ELSE "FileUploadError"

\* { _id: filename, name: filename, ...pick(meta, ['size', 'etag']) }; by is
\* the request that adds the entry (0: there from the start).
payloadOf(name, meta, by) ==
    [name |-> name, size |-> meta.size, etag |-> meta.etag, by |-> by]

\* files.filter((i) => !files.includes(i.name))
filterFiles(files, names) == SelectSeq(files, LAMBDA i : i.name \notin names)

\* prepare(): this.cdoc = await CourseModel.get(domainId, cid).  The requests
\* modelled are those of a user who passes the permission check.
FilesPrepare(r) ==
    /\ freq[r].pc = "idle"
    /\ freq' = [freq EXCEPT ![r] = [@ EXCEPT !.pc = "prepared",
                                              !.files = cdoc.files]]
    /\ UNCHANGED <<delVars, cdoc, collStatus, now, req, response, blobs>>

\* postUploadFile up to its first await (StorageModel.put).
PostUploadFile(r, filename, hasFile, size) ==
    /\ freq[r].pc = "prepared"
    /\ LET me == [freq[r] EXCEPT !.kind = "upload", !.name = filename,
                                  !.hasFile = hasFile, !.size = size]
           chk == quotaCheck(me.files, hasFile, size)
       IN  freq' = [freq EXCEPT ![r] =
                IF chk = "ok" THEN [me EXCEPT !.pc = "put"]
                ELSE [me EXCEPT !.pc = "done", !.result = chk]]
    /\ UNCHANGED <<delVars, cdoc, collStatus, now, req, response, blobs>>

\* await StorageModel.put(path, file.filepath, uid): the blob is written.
StoragePut(r) ==
    /\ freq[r].pc = "put"
    /\ blobs' = [blobs EXCEPT ![freq[r].name] =
                    [size |-> freq[r].size, etag |-> r]]
    /\ freq' = [freq EXCEPT ![r] = [@ EXCEPT !.pc = "getMeta",
                                    !.putIssued = TRUE, !.putOk = TRUE]]
    /\ UNCHANGED <<delVars, cdoc, collStatus, now, req, response>>

\* StorageModel.put throws: the error propagates out of the handler.
StoragePutFail(r) ==
    /\ freq[r].pc = "put"
    /\ freq' = [freq EXCEPT ![r] = [@ EXCEPT !.pc = "done",
                                    !.putIssued = TRUE, !.result = "PutFailed"]]
    /\ UNCHANGED <<delVars, cdoc, collStatus, now, req, response, blobs>>

\* await StorageModel.getMeta(path): the blob's metadata, or nothing when the
\* blob is not there (any more) or found is FALSE (the lookup returned nothing).
StorageGetMeta(r, found) ==
    /\ freq[r].pc = "getMeta"
    /\ LET meta == blobs[freq[r].name]
           present == found /\ meta # NoBlob
           next == metaOutcome(present)
       IN  freq' = [freq EXCEPT ![r] =
                IF next = "edit"
                THEN [@ EXCEPT !.pc = "edit", !.metaOk = present,
                               !.meta = IF present THEN meta ELSE NoBlob]
                ELSE [@ EXCEPT !.pc = "done", !.result = "FileUploadError"]]
    /\ UNCHANGED <<delVars, cdoc, collStatus, now, req, response, blobs>>

\* await CourseModel.edit(.., { files: [...(this.cdoc.files || []), payload] }).
UploadEdit(r) ==
    /\ freq[r].pc = "edit"
    /\ cdoc' = [cdoc EXCEPT !.files =
                    Append(freq[r].files, payloadOf(freq[r].name, freq[r].meta, r))]
    /\ freq' = [freq EXCEPT ![r] = [@ EXCEPT !.pc = "done", !.result = "ok",
                                    !.editDone = TRUE,
                                    !.pre = cdoc.files, !.post = cdoc'.files]]
    /\ UNCHANGED <<delVars, collStatus, now, req, response, blobs>>

\* postDeleteFiles: Promise.all of StorageModel.del and CourseModel.edit; the
\* two run in either order.
PostDeleteFiles(r, names) ==
    /\ freq[r].pc = "prepared"
    /\ freq' = [freq EXCEPT ![r] = [@ EXCEPT !.pc = "deleting",
                                    !.kind = "delete", !.names = names]]
    /\ UNCHANGED <<delVars, cdoc, collStatus, now, req, response, blobs>>

deleteFinished(f) ==
    IF f.delDone /\ f.editDone THEN [f EXCEPT !.pc = "done", !.result = "ok"]
    ELSE f

\* StorageModel.del(files.map(path)).
DeleteBlobs(r) ==
    /\ freq[r].pc = "deleting" /\ ~freq[r].delDone
    /\ blobs' = [n \in FileNames |->
                    IF n \in freq[r].names THEN NoBlob ELSE blobs[n]]
    /\ freq' = [freq EXCEPT ![r] = deleteFinished([@ EXCEPT !.delDone = TRUE])]
    /\ UNCHANGED <<delVars, cdoc, collStatus, now, req, response>>

\* CourseModel.edit(.., { files: this.cdoc.files?.filter(..) }).
DeleteEdit(r) ==
    /\ freq[r].pc = "deleting" /\ ~freq[r].editDone
    /\ cdoc' = [cdoc EXCEPT !.files = filterFiles(freq[r].files, freq[r].names)]
    /\ freq' = [freq EXCEPT ![r] = deleteFinished(
                    [@ EXCEPT !.editDone = TRUE,
                              !.pre = cdoc.files, !.post = cdoc'.files])]
    /\ UNCHANGED <<delVars, collStatus, now, req, response, blobs>>

\* The attachment lists the course starts with: files uploaded earlier, each
\* name once, each with its blob.
InitialFiles ==
    {<<>>} \cup
    {<<[name |-> "a", size |-> z, etag |-> 0, by |-> 0]>> : z \in FileSizes}
    \cup {<<[name |-> "a", size |-> z, etag |-> 0, by |-> 0],
            [name |-> "b", size |-> 1, etag |-> 0, by |-> 0]>> : z \in FileSizes}

blobsOf(files) ==
    [n \in FileNames |->
        IF \E i \in DOMAIN files : files[i].name = n
        THEN LET i == CHOOSE k \in DOMAIN files : files[k].name = n
             IN  [size |-> files[i].size, etag |-> files[i].etag]
        ELSE NoBlob]

InitFiles ==
    /\ \E f \in InitialFiles :
        /\ cdoc = [NewCourse(0, 1, <<>>) EXCEPT !.files = f]
        /\ blobs = blobsOf(f)
    /\ collStatus = <<>>
    /\ now = 0
    /\ req = [r \in ReqIds |-> IdleReq]
    /\ response = NoResponse
    /\ freq = [r \in FileReqIds |-> IdleFreq]
    /\ stored = TRUE
    /\ dreq = IdleDreq

NextFiles ==
    \/ \E r \in FileReqIds : FilesPrepare(r)
    \/ \E r \in FileReqIds, n \in FileNames, z \in FileSizes :
            PostUploadFile(r, n, TRUE, z)
    \/ \E r \in FileReqIds : PostUploadFile(r, "a", FALSE, 0)
    \/ \E r \in FileReqIds : StoragePut(r)
    \/ \E r \in FileReqIds : StoragePutFail(r)
    \/ \E r \in FileReqIds, found \in BOOLEAN : StorageGetMeta(r, found)
    \/ \E r \in FileReqIds : UploadEdit(r)
    \/ \E r \in FileReqIds, names \in SUBSET FileNames \ {{}} :
            PostDeleteFiles(r, names)
    \/ \E r \in FileReqIds : DeleteBlobs(r)
    \/ \E r \in FileReqIds : DeleteEdit(r)

SpecFiles == InitFiles /\ [][NextFiles]_vars

\* ----------------------------------------------------- CourseMainHandler

\* The access part of the query: no condition when the viewer may view hidden
\* courses and no group was asked for; otherwise the $or of the conditions
\* (field: value matches an array holding the value, $in an array sharing an
\* element with the list, $size: 0 an empty array).  (accessNoPublic: the
\* $size: 0 condition is missing.)
accessNoPublic(c, uid, groups, viewHidden, group) ==
    \/ viewHidden /\ group = ""
    \/ uid \in c.maintainer
    \/ c.owner = uid
    \/ uid \in c.teachers
    \/ c.assign \cap groups # {}
    \/ c.classes \cap groups # {}
    \/ group # "" /\ (group \in c.assign \/ group \in c.classes)

accessMatches(c, uid, groups, viewHidden, group) ==
    \/ viewHidden /\ group = ""
    \/ uid \in c.maintainer
    \/ c.owner = uid
    \/ uid \in c.teachers
    \/ c.assign \cap groups # {}
    \/ c.classes \cap groups # {}
    \/ c.assign = {}
    \/ group # "" /\ (group \in c.assign \/ group \in c.classes)

\* get(): the query is the access part and, when q is given, the title
\* pattern (search: "none" without q, "miss" when the title does not match).
\* The body lists the matching courses; uid, userGroups and viewHidden record
\* the viewer the list was built for.
MainGet(uid, userGroups, viewHidden, group, search) ==
    LET groups == listGroup(viewHidden, userGroups)
        hit == accessMatches(cdoc, uid, groups, viewHidden, group)
                    /\ search # "miss"
    IN  /\ response' = [kind |-> "main", uid |-> uid, userGroups |-> userGroups,
                        viewHidden |-> viewHidden, group |-> group,
                        search |-> search, groups |-> groups,
                        cdocs |-> IF hit THEN <<cdoc>> ELSE <<>>]
        /\ UNCHANGED <<delVars, cdoc, collStatus, now, req, freq, blobs>>

\* Courses as postUpdate can leave them: owner 1, any maintainers, teachers,
\* assigned groups and classes.
InitList ==
    /\ \E m, t \in SUBSET {2}, a, c \in SUBSET GroupNames :
        cdoc = [NewCourse(0, 1, <<>>) EXCEPT !.maintainer = m, !.teachers = t,
                                             !.assign = a, !.classes = c]
    /\ collStatus = <<>>
    /\ now = 0
    /\ req = [r \in ReqIds |-> IdleReq]
    /\ response = NoResponse
    /\ freq = [r \in FileReqIds |-> IdleFreq]
    /\ blobs = [n \in FileNames |-> NoBlob]
    /\ stored = TRUE
    /\ dreq = IdleDreq

NextList ==
    \E uid \in Users, ug \in SUBSET DomainGroups, vh \in BOOLEAN,
       group \in {"", "g1", "gx"}, search \in {"none", "miss"} :
        MainGet(uid, ug, vh, group, search)

SpecList == InitList /\ [][NextList]_vars

\* ------------------------------------------- the list and the detail page

\* The requests of one behaviour come from one viewer: user u, member of the
\* groups ug, with or without the view-hidden permission.
SameViewer(u, ug, vh) ==
    /\ \A r \in ReqIds :
        req[r].pc # "idle" =>
            (req[r].uid = u /\ req[r].groups = ug /\ req[r].viewHidden = vh)
    /\ response.kind = "main" =>
            (response.uid = u /\ response.userGroups = ug
                /\ response.viewHidden = vh)

\* The viewer opens detail pages, by the course's id or by one that resolves
\* to nothing, and asks for the course list without group filter or search.
NextAccess ==
    \/ \E r \in ReqIds, u \in Users, ug \in SUBSET DomainGroups,
          vh \in BOOLEAN, cid \in ObjectIds :
            SameViewer(u, ug, vh) /\ DetailPrepare(r, u, ug, vh, cid)
    \/ \E u \in Users, ug \in SUBSET DomainGroups, vh \in BOOLEAN :
            SameViewer(u, ug, vh) /\ MainGet(u, ug, vh, "", "none")

SpecAccess == InitList /\ [][NextAccess]_vars

\* ------------------------------------------------------ claims: enrolment

\* The enrol calls (CourseModel.attend) made so far for user u.
Calls(u) == {r \in ReqIds : req[r].uid = u /\ req[r].called}

\* C1: once the N >= 1 enrol calls made for one user (not enrolled at the
\* start) have all finished, exactly one enrolment record with attend = 1 of
\* that user exists, at most one of the calls has incremented the attendance
\* counter, and N - 1 of them failed with 'Already enrolled' without
\* incrementing it; the counter holds exactly the increments made.
C1_EnrollOnce ==
    /\ cdoc.attend = Cardinality({r \in ReqIds : req[r].inc})
    /\ \A u \in Users :
        (Calls(u) # {} /\ \A r \in Calls(u) : req[r].pc = "done") =>
            /\ Enrolled(collStatus, u) = 1
            /\ Cardinality({r \in Calls(u) : req[r].inc}) <= 1
            /\ Cardinality({r \in Calls(u) :
                    req[r].result = "AlreadyEnrolled" /\ ~req[r].inc})
               = Cardinality(Calls(u)) - 1

\* Two calls for the same user have finished: one enrolled, one conflicted.
C1_Witness ==
    \E u \in Users :
        /\ Cardinality(Calls(u)) >= 2
        /\ \A r \in Calls(u) : req[r].pc = "done"
        /\ \E r \in Calls(u) : req[r].result = "ok"
        /\ \E r \in Calls(u) : req[r].result = "AlreadyEnrolled"

\* C2: the attendance counter never exceeds the number of enrolment records
\* with attend = 1, and equals it once no enrol call is between its
\* conditional write and its increment and no increment failed in the store.
C2_CounterMatches ==
    /\ cdoc.attend <= EnrolledCount(collStatus)
    /\ ((\A r \in ReqIds : req[r].pc # "inc" /\ req[r].result # "StoreError")
            => cdoc.attend = EnrolledCount(collStatus))

\* Two different users are enrolled, nothing is in flight, the counter is 2.
C2_Witness ==
    /\ \A r \in ReqIds : req[r].pc # "inc"
    /\ EnrolledCount(collStatus) = 2
    /\ cdoc.attend = 2

\* C3, as claimed: a postAttend called when the end time has passed fails
\* with 'Course has ended' and never reaches the conditional write.
C3_EndedAlwaysCourseEnded ==
    \A r \in ReqIds :
        req[r].ended => (req[r].result = "CourseEnded" /\ ~req[r].called)

\* C3, amended: a postAttend called when the end time has passed never reaches
\* the conditional write (no record created or changed, counter unchanged); it
\* fails with 'Course has ended' when the viewer holds the attend permission,
\* and with the permission error otherwise.
C3_EndedNoWrite ==
    /\ \A r \in ReqIds :
        req[r].ended =>
            /\ ~req[r].called /\ ~req[r].inc
            /\ req[r].result = IF req[r].perm THEN "CourseEnded"
                               ELSE "PermissionDenied"
    /\ (\A r \in ReqIds : req[r].pc \in {"idle", "prepared"} \/ req[r].ended)
            => /\ cdoc.attend = 0
               /\ \A i \in DOMAIN collStatus : collStatus[i] = BareStatus(collStatus[i].uid)

\* A permitted viewer's postAttend was refused because the course had ended.
C3_Witness ==
    \E r \in ReqIds :
        req[r].ended /\ req[r].perm /\ req[r].result = "CourseEnded"

\* ------------------------------------------------------- claims: progress

MaxOf(S) == CHOOSE i \in S : \A j \in S : j <= i

\* The places of the journal entries for problem p.
Hits(journal, p) == {i \in DOMAIN journal : journal[i].pid = p}

\* C4: in the course detail view, the progress shown for a problem of the
\* course's list is the student's last journal entry (by append order) for that
\* problem, whatever the scores; a problem without an entry, and an entry whose
\* problem is not in the list, yield no progress.
C4_ProgressIsLastEntry ==
    response.kind = "detail" =>
        LET j == response.csdoc.journal
            listed == Range(response.cdoc.pids)
        IN  \A p \in Pids :
                IF p \in listed /\ Hits(j, p) # {}
                THEN /\ p \in DOMAIN response.psdict
                     /\ response.psdict[p] = j[MaxOf(Hits(j, p))]
                ELSE p \notin DOMAIN response.psdict

\* A student scored 100, then 40, on a listed problem: the view shows 40.
C4_Witness ==
    /\ response.kind = "detail"
    /\ \E p \in Range(response.cdoc.pids) :
        LET j == response.csdoc.journal
        IN  /\ \E a, b \in Hits(j, p) :
                a < b /\ j[a].score = 100 /\ j[b].score = 40
            /\ response.psdict[p].score = 40

\* The status document a scoreboard row was computed from.
RowCsdoc(row) == getStatus(collStatus, row.uid)

\* C5: in each scoreboard row the score of a problem of the course's list is
\* the score of the student's last journal entry for it, and 0 without one.
C5_ScoreIsLastEntry ==
    response.kind = "scoreboard" =>
        \A k \in DOMAIN response.rows :
            LET row == response.rows[k]
                j == RowCsdoc(row).journal
            IN  \A p \in Range(response.cdoc.pids) :
                    row.scores[p] = IF Hits(j, p) = {} THEN 0
                                    ELSE j[MaxOf(Hits(j, p))].score

RECURSIVE SumOverList(_, _)
SumOverList(scores, pids) ==
    IF pids = <<>> THEN 0
    ELSE scores[Head(pids)] + SumOverList(scores, Tail(pids))

RemoveAt(q, i) == SubSeq(q, 1, i - 1) \o SubSeq(q, i + 1, Len(q))

\* C6: a row's total is the sum of the row's per-problem scores over the
\* course's current problem list; journal entries for other problems add
\* nothing, so with a problem taken off the list the total is lower by that
\* problem's score; an empty list gives total 0, and the rows are exactly the
\* enrolled students (none enrolled: no rows).
C6_TotalOverCurrentList ==
    response.kind = "scoreboard" =>
        LET pids == response.cdoc.pids
            rows == response.rows
        IN  /\ Len(rows) = EnrolledCount(collStatus)
            /\ {rows[k].uid : k \in DOMAIN rows}
                = {collStatus[i].uid : i \in {n \in DOMAIN collStatus :
                                                collStatus[n].attend = 1}}
            /\ \A k \in DOMAIN rows :
                /\ DOMAIN rows[k].scores = Range(pids)
                /\ rows[k].totalScore = SumOverList(rows[k].scores, pids)
                /\ pids = <<>> => rows[k].totalScore = 0
                /\ \A i \in DOMAIN pids :
                    rowOf(RowCsdoc(rows[k]), RemoveAt(pids, i)).totalScore
                        = rows[k].totalScore - rows[k].scores[pids[i]]

\* A scoreboard whose student has scored on a problem that is not on the
\* course's list, and on one that is: only the latter counts.
C6_Witness ==
    /\ response.kind = "scoreboard"
    /\ \E k \in DOMAIN response.rows :
        LET row == response.rows[k]
            j == RowCsdoc(row).journal
        IN  /\ \E i \in DOMAIN j : j[i].pid \notin Range(response.cdoc.pids)
            /\ \E i \in DOMAIN j : j[i].pid \in Range(response.cdoc.pids)
            /\ row.totalScore > 0
            /\ row.totalScore < journalSum(j)

\* ---------------------------------------------------- claims: attachments

\* Request r has written nothing: no blob write was issued, no blob and no
\* entry of the attachment list comes from it.
WroteNothing(r) ==
    /\ ~freq[r].putIssued /\ ~freq[r].editDone
    /\ \A n \in FileNames : blobs[n].etag # r
    /\ \A i \in DOMAIN cdoc.files : cdoc.files[i].by # r

Uploads == {r \in FileReqIds : freq[r].kind = "upload"}

\* C7: an upload is rejected with the count-limit error when the attachment
\* count of the course document it read is at or above the ceiling, and (the
\* count being below it and a file being sent) with the size-limit error when
\* the existing sizes plus the incoming size are >= the byte ceiling; in both
\* cases no blob write is issued and the request leaves the list alone.
C7_QuotaRejects ==
    \A r \in Uploads :
        LET f == freq[r]
        IN  /\ Len(f.files) >= FilesLimit =>
                (f.result = "FileLimitExceeded_count" /\ WroteNothing(r))
            /\ (Len(f.files) < FilesLimit /\ f.hasFile
                    /\ totalSize(f.files) + f.size >= FilesSizeLimit) =>
                (f.result = "FileLimitExceeded_size" /\ WroteNothing(r))

\* An upload that brings the total exactly to the byte ceiling was rejected
\* with the size error, and the attachment list is as the request read it.
C7_Witness ==
    \E r \in Uploads :
        /\ freq[r].result = "FileLimitExceeded_size"
        /\ totalSize(freq[r].files) + freq[r].size = FilesSizeLimit
        /\ cdoc.files = freq[r].files

\* C8: an upload whose blob write failed, or whose metadata could not be
\* retrieved afterwards, fails and adds no entry to the attachment list; an
\* entry is added only after the blob write has succeeded.
C8_NoOrphanMetadata ==
    /\ \A r \in Uploads :
        /\ freq[r].result \in {"PutFailed", "FileUploadError"} =>
                (~freq[r].editDone
                    /\ \A i \in DOMAIN cdoc.files : cdoc.files[i].by # r)
        /\ freq[r].editDone => (freq[r].putOk /\ freq[r].metaOk)
    /\ \A i \in DOMAIN cdoc.files :
        /\ cdoc.files[i].etag >= 0
        /\ cdoc.files[i].by \in FileReqIds =>
                (freq[cdoc.files[i].by].putOk /\ freq[cdoc.files[i].by].metaOk)

\* One upload failed in the blob write, another wrote its blob and found no
\* metadata; the attachment list holds no entry of either.
C8_Witness ==
    /\ \E r \in Uploads : freq[r].result = "PutFailed"
    /\ \E r \in Uploads : freq[r].result = "FileUploadError" /\ freq[r].putOk
    /\ \A i \in DOMAIN cdoc.files : cdoc.files[i].by = 0

\* Upload u succeeded on the list it had read, and delete d, naming u's file
\* only, then ran on the list u left.
RoundTrip(u, d) ==
    /\ freq[u].kind = "upload" /\ freq[u].result = "ok"
    /\ freq[u].files = freq[u].pre
    /\ freq[d].kind = "delete" /\ freq[d].editDone
    /\ freq[d].names = {freq[u].name}
    /\ freq[d].files = freq[u].post
    /\ freq[d].pre = freq[u].post

\* C9: a successful upload of a file followed by a delete request naming it
\* returns the attachment list to exactly its state before the upload, also
\* when an attachment of that name was already present.
C9_UploadDeleteRoundTrip ==
    \A u, d \in FileReqIds : RoundTrip(u, d) => freq[d].post = freq[u].pre

\* C9 without the case of a name already present: this much the code does.
C9_RoundTripFreshName ==
    \A u, d \in FileReqIds :
        (RoundTrip(u, d)
            /\ \A i \in DOMAIN freq[u].pre : freq[u].pre[i].name # freq[u].name)
        => freq[d].post = freq[u].pre

\* Uploads r1 and r2 of different files both succeeded, and neither had the
\* other's entry in the course document it read.
ConcurrentUploads(r1, r2) ==
    /\ r1 # r2
    /\ freq[r1].kind = "upload" /\ freq[r1].result = "ok"
    /\ freq[r2].kind = "upload" /\ freq[r2].result = "ok"
    /\ freq[r1].name # freq[r2].name
    /\ \A i \in DOMAIN freq[r1].files : freq[r1].files[i].by # r2
    /\ \A i \in DOMAIN freq[r2].files : freq[r2].files[i].by # r1

\* Request r has put an entry into the attachment list as it is now.
HasEntryOf(r) == \E i \in DOMAIN cdoc.files : cdoc.files[i].by = r

\* C12: when two concurrent uploads of different files, each having read the
\* course document before the other wrote, have both passed the quota check
\* and succeeded, the attachment list (as the later of the two left it) holds
\* the new entries of both, so that its count can exceed the ceiling.
C12_BothEntriesKept ==
    \A r1, r2 \in FileReqIds :
        (ConcurrentUploads(r1, r2)
            /\ cdoc.files \in {freq[r1].post, freq[r2].post})
        => (HasEntryOf(r1) /\ HasEntryOf(r2))

\* What the code does instead: no write makes the list longer than the
\* ceiling, because every write is the list a request read, checked to be
\* below the ceiling, plus one entry.
C12_CountWithinCeiling == Len(cdoc.files) <= FilesLimit

\* C13: under any interleaving of uploads and deletes, every upload that
\* succeeded and whose file no delete request named has its entry in the
\* attachment list, and every entry that was in the list before a request's
\* write and that the request did not delete is in the list after it.
C13_NoLostUpdate ==
    /\ \A u \in Uploads :
        (/\ freq[u].result = "ok"
         /\ \A d \in FileReqIds :
                freq[d].kind = "delete" => freq[u].name \notin freq[d].names)
        => HasEntryOf(u)
    /\ \A r \in FileReqIds :
        freq[r].editDone =>
            \A i \in DOMAIN freq[r].pre :
                (freq[r].kind = "upload"
                    \/ freq[r].pre[i].name \notin freq[r].names)
                => \E k \in DOMAIN freq[r].post :
                        freq[r].post[k] = freq[r].pre[i]

\* ---------------------------------------------------- claims: course list

Listed == response.cdocs # <<>>

\* The six grants of the claim, for the viewer of the response and groups G.
SixGrants(G) ==
    LET c == cdoc
    IN  \/ c.owner = response.uid
        \/ response.uid \in c.maintainer
        \/ response.uid \in c.teachers
        \/ c.assign \cap G # {}
        \/ c.assign = {}
        \/ response.group # ""
            /\ (response.group \in c.assign \/ response.group \in c.classes)

Bypass == response.viewHidden /\ response.group = ""

\* C10, as claimed: the list filter matches the course iff one of the six
\* grants holds for the viewer's own groups; with the view-hidden permission
\* and no group filter it matches every course.
C10_SixGrantsOnly ==
    (response.kind = "main" /\ response.search = "none") =>
        IF Bypass THEN Listed
        ELSE Listed <=> SixGrants(response.userGroups)

\* C10 with the class grant added but still the viewer's own groups.
C10_OwnGroupsOnly ==
    (response.kind = "main" /\ response.search = "none") =>
        IF Bypass THEN Listed
        ELSE Listed <=> (SixGrants(response.userGroups)
                            \/ cdoc.classes \cap response.userGroups # {})

\* C10, amended: without a title search, the filter matches the course iff
\* one of the six grants holds or the course's class set shares a group with
\* G, where G is the viewer's groups, or all groups of the domain when the
\* viewer holds the view-hidden permission; with that permission and no group
\* filter it matches every course.
C10_ListFilter ==
    (response.kind = "main" /\ response.search = "none") =>
        LET G == IF response.viewHidden THEN DomainGroups
                 ELSE response.userGroups
        IN  IF Bypass THEN Listed
            ELSE Listed <=> (SixGrants(G) \/ cdoc.classes \cap G # {})

\* A viewer without the permission asked for a group and was shown a course
\* that only its legacy class set, holding that group, grants.
C10_Witness ==
    /\ response.kind = "main" /\ response.search = "none"
    /\ ~response.viewHidden /\ response.group # ""
    /\ Listed
    /\ response.group \in cdoc.classes
    /\ cdoc.assign # {} /\ cdoc.assign \cap response.userGroups = {}
    /\ cdoc.classes \cap response.userGroups = {}
    /\ response.group \notin cdoc.assign
    /\ response.uid # cdoc.owner
    /\ response.uid \notin cdoc.maintainer \cup cdoc.teachers

\* ---------------------------------------------------- claims: detail page

\* Requests r1 and r2 were made by the same viewer.
SameRequester(r1, r2) ==
    /\ req[r1].uid = req[r2].uid
    /\ req[r1].groups = req[r2].groups
    /\ req[r1].viewHidden = req[r2].viewHidden

\* The errors of r1 and r2 are the same error of the same parameters, each
\* naming the id its own request named.
SameFailure(r1, r2) ==
    \/ /\ req[r1].error = CourseNotFoundError(DomainId, req[r1].cid)
       /\ req[r2].error = CourseNotFoundError(DomainId, req[r2].cid)
    \/ /\ req[r1].error = NotFoundError("Course", toString(req[r1].cid))
       /\ req[r2].error = NotFoundError("Course", toString(req[r2].cid))

\* C11: when the same viewer opens the detail page of an id that resolves to
\* no course and of an existing course no grant makes visible to the viewer,
\* both requests fail with the same NotFound error: the same error kind and
\* the same parameters, so that the two causes cannot be told apart.
C11_SameNotFound ==
    \A r1, r2 \in ReqIds :
        (/\ SameRequester(r1, r2)
         /\ req[r1].result = "NotFound" /\ req[r1].cid # CourseId
         /\ req[r2].result = "NotFound" /\ req[r2].cid = CourseId)
        => SameFailure(r1, r2)

\* C14: when the course list asked for without a group filter shows the
\* course to a viewer, prepare() of the detail page admits the same viewer to
\* that course: no NotFound is raised; so for a maintainer, the owner, a
\* teacher and a member of an assigned group.
C14_ListedIsAdmitted ==
    (response.kind = "main" /\ response.group = "" /\ Listed) =>
        \A r \in ReqIds :
            (/\ req[r].pc # "idle" /\ req[r].cid = CourseId
             /\ req[r].uid = response.uid
             /\ req[r].groups = response.userGroups
             /\ req[r].viewHidden = response.viewHidden)
            => (req[r].pc = "prepared" /\ req[r].error = NoError)

\* A teacher who is neither owner nor maintainer, shares no group with the
\* course and may not view hidden courses is shown a course with assigned
\* groups in the list and is admitted to its detail page.
C14_Witness ==
    /\ response.kind = "main" /\ response.group = "" /\ Listed
    /\ \E r \in ReqIds :
        /\ req[r].pc = "prepared" /\ req[r].cid = CourseId
        /\ req[r].uid = response.uid /\ ~req[r].viewHidden
        /\ req[r].groups = response.userGroups
        /\ ~response.viewHidden
        /\ cdoc.assign # {} /\ ~own(cdoc, req[r].uid)
        /\ cdoc.assign \cap req[r].groups = {}
        /\ cdoc.classes \cap req[r].groups = {}
        /\ req[r].uid \in cdoc.teachers

\* ------------------------------------------------ claims: course deletion

\* The deletion has completed and no enrol request is under way.
DeletionSettled ==
    /\ dreq.pc = "done" /\ dreq.result = "ok"
    /\ \A r \in ReqIds : req[r].pc \in {"idle", "done"}

\* C15: once a course deletion and every request that was in flight with it
\* have completed, the status collection holds no enrolment record of the
\* course, also when an enrol call ran concurrently with the deletion.
C15_NoRecordAfterDelete ==
    DeletionSettled => collStatus = <<>>

\* The cascade itself: with no enrol call made, a completed deletion leaves no
\* enrolment record, no course document and no blob of the files it read.
C15_CascadeWithoutEnroll ==
    (DeletionSettled /\ \A r \in ReqIds : ~req[r].called) =>
        /\ collStatus = <<>>
        /\ ~stored
        /\ blobs["a"] = NoBlob

====
